---- MODULE Spec2Model ----
(***************************************************************************)
(* Model of the joinable crate: the RHS wrapper (rhs.rs), the per-match    *)
(* join iterators (joined.rs) and the grouped / left-only join iterators   *)
(* (joined_grouped.rs).                                                    *)
(*                                                                         *)
(* Records are opaque to the library: the only thing it ever does with an  *)
(* LHS record l and an RHS record r is evaluate predicate(l, r).  An input *)
(* (A, B, P) is therefore represented, without loss of generality, by the  *)
(* length of A, the length of B and the table                              *)
(*     predicate[<<i, j>>] = P(A[i], B[j])                                 *)
(* (two equal LHS records are two equal rows of the table).  References    *)
(* into the LHS sequence and into the RHS slice are 0-based indices, as in *)
(* the source.  Option<T> is a sequence of length 0 (None) or 1 (Some).    *)
(***************************************************************************)
EXTENDS Integers, Sequences, FiniteSets, TLC

VARIABLES
    lhs_len,       \* number of records the LHS sequence will produce
    rhs,           \* the RHS wrapper: [tag |-> "Unsorted" | "Sorted", len |-> slice length]
    predicate,     \* predicate[<<i, j>>] = P(A[i], B[j])
    search_impl,   \* which slice::binary_search_by the build links
    op,            \* the factory that constructed the iterator
    lhs_iter,      \* lhs_iter: number of records already pulled from the LHS sequence
    current_left,  \* current_left: Option<index of LHS record>  (per-match iterators)
    rhs_range,     \* rhs_range: (lo, hi)                        (per-match iterators)
    out,           \* every element yielded so far, in order
    last,          \* result of the latest call of next(): "init", "some" or "none"
    pulled,        \* number of LHS records pulled by the latest call of next()
    iters,         \* iterations of `loop` in the latest call of next()
    reads,         \* RHS slice indices read by the latest call of next()
    evals,         \* predicate evaluations of the seek in the latest call of next()
    nones          \* number of calls of next() that returned None

inputs == <<lhs_len, rhs, predicate, search_impl, op>>
vars == <<lhs_len, rhs, predicate, search_impl, op, lhs_iter, current_left,
          rhs_range, out, last, pulled, iters, reads, evals, nones>>

\* ---------------------------------------------------------------- bounds
\* longest LHS sequence, longest RHS slice, largest predicate table
\* (lhs_len * rhs.len) and number of calls of next() answered None
MaxLhs == 3
MaxRhs == 4
MaxCells == 6
MaxNones == 2

\* ------------------------------------------------------------- Ordering
Ordering == {"Less", "Equal", "Greater"}

reverse(o) ==
    CASE o = "Less" -> "Greater"
      [] o = "Greater" -> "Less"
      [] OTHER -> "Equal"

Compare(a, b) == IF a < b THEN "Less" ELSE IF a > b THEN "Greater" ELSE "Equal"

\* --------------------------------------------------- test data (keys only)
LEFT_ITEMS == <<0, 0, 1, 2, 3, 4, 5, 6, 7, 8, 9, 10>>
RIGHT_ITEMS == <<0, 1, 1, 1, 2, 2, 3, 4>>

\* |l, r| l.0.cmp(&r.0) over LEFT_ITEMS x RIGHT_ITEMS, with 0-based indices
TestPredicate ==
    [p \in (0..(Len(LEFT_ITEMS) - 1)) \X (0..(Len(RIGHT_ITEMS) - 1)) |->
        Compare(LEFT_ITEMS[p[1] + 1], RIGHT_ITEMS[p[2] + 1])]

\* ------------------------------------------- slice::binary_search_by (core)
\* f[j] is the comparator applied to element j of a slice of length len.
\* Result: [ok |-> TRUE, pos |-> p] for Ok(p), [ok |-> FALSE, pos |-> p] for Err(p);
\* probes is the set of slice indices the search read.
SearchImpls == {"early_return", "branchless"}

\* core 1.52 .. 1.81: left/right window, returns as soon as f is Equal
RECURSIVE binary_search_early_return(_, _, _, _)
binary_search_early_return(f, left, right, size) ==
    IF left < right
    THEN LET mid == left + (size \div 2)
             cmp == f[mid]
             rest == IF cmp = "Less"
                     THEN binary_search_early_return(f, mid + 1, right, right - (mid + 1))
                     ELSE IF cmp = "Greater"
                     THEN binary_search_early_return(f, left, mid, mid - left)
                     ELSE [ok |-> TRUE, pos |-> mid, probes |-> {}]
         IN  [rest EXCEPT !.probes = @ \cup {mid}]
    ELSE [ok |-> FALSE, pos |-> left, probes |-> {}]

\* core before 1.52 and from 1.82: base/size halving, one final comparison
RECURSIVE binary_search_branchless(_, _, _)
binary_search_branchless(f, base, size) ==
    IF size > 1
    THEN LET half == size \div 2
             mid == base + half
             rest == binary_search_branchless(f, IF f[mid] = "Greater" THEN base ELSE mid,
                                              size - half)
         IN  [rest EXCEPT !.probes = @ \cup {mid}]
    ELSE IF f[base] = "Equal"
         THEN [ok |-> TRUE, pos |-> base, probes |-> {base}]
         ELSE [ok |-> FALSE, pos |-> base + (IF f[base] = "Less" THEN 1 ELSE 0),
               probes |-> {base}]

binary_search_by(impl, len, f) ==
    IF impl = "early_return"
    THEN binary_search_early_return(f, 0, len, len)
    ELSE IF len = 0 THEN [ok |-> FALSE, pos |-> 0, probes |-> {}]
         ELSE binary_search_branchless(f, 0, len)

\* ------------------------------------------------------------- rhs.rs
\* RHS::has_value
has_value(r, impl, P, l) ==
    IF r.tag = "Unsorted"
    THEN \E j \in 0..(r.len - 1) : P[<<l, j>>] = "Equal"
    ELSE binary_search_by(impl, r.len, [j \in 0..(r.len - 1) |-> P[<<l, j>>]]).ok

\* the walk to the start of the run left out
get_range_start_stay(P, left, start) == start

\* while start > 0 && predicate(left, &rs[start - 1]).is_eq() { start -= 1 }
RECURSIVE get_range_start(_, _, _)
get_range_start(P, left, start) ==
    IF start > 0 /\ P[<<left, start - 1>>] = "Equal"
    THEN get_range_start(P, left, start - 1)
    ELSE start

\* the end of the range taken to be the end of the slice
get_range_end_all(r, P, left, end) == r.len

\* while end < rs.len() && predicate(left, &rs[end]).is_eq() { end += 1 }
RECURSIVE get_range_end(_, _, _, _)
get_range_end(r, P, left, end) ==
    IF end < r.len /\ P[<<left, end>>] = "Equal"
    THEN get_range_end(r, P, left, end + 1)
    ELSE end

\* get_range with the comparator passed to the bisection as it is in has_value
get_range_unreversed(r, impl, P, left) ==
    IF r.tag = "Unsorted"
    THEN <<0, r.len>>
    ELSE LET found == binary_search_by(impl, r.len,
                          [j \in 0..(r.len - 1) |-> P[<<left, j>>]])
         IN  IF found.ok
             THEN <<get_range_start(P, left, found.pos),
                    get_range_end(r, P, left, found.pos)>>
             ELSE <<1, 0>>

\* RHS::get_range
get_range(r, impl, P, left) ==
    IF r.tag = "Unsorted"
    THEN <<0, r.len>>
    ELSE LET found == binary_search_by(impl, r.len,
                          [j \in 0..(r.len - 1) |-> reverse(P[<<left, j>>])])
         IN  IF found.ok
             THEN <<get_range_start(P, left, found.pos),
                    get_range_end(r, P, left, found.pos)>>
             ELSE <<1, 0>>

\* the slice indices RHS::has_value reads: `any` stops at the first Equal
has_value_reads(r, impl, P, l) ==
    IF r.tag = "Unsorted"
    THEN {j \in 0..(r.len - 1) : \A k \in 0..(j - 1) : P[<<l, k>>] # "Equal"}
    ELSE binary_search_by(impl, r.len, [j \in 0..(r.len - 1) |-> P[<<l, j>>]]).probes

\* the slice indices the walk to the start of the run reads: rs[start - 1]
RECURSIVE get_range_start_reads(_, _, _)
get_range_start_reads(P, left, start) ==
    IF start > 0
    THEN {start - 1} \cup (IF P[<<left, start - 1>>] = "Equal"
                           THEN get_range_start_reads(P, left, start - 1)
                           ELSE {})
    ELSE {}

\* the slice indices the walk to the end of the run reads: rs[end]
RECURSIVE get_range_end_reads(_, _, _, _)
get_range_end_reads(r, P, left, end) ==
    IF end < r.len
    THEN {end} \cup (IF P[<<left, end>>] = "Equal"
                     THEN get_range_end_reads(r, P, left, end + 1)
                     ELSE {})
    ELSE {}

\* the slice indices RHS::get_range reads
get_range_reads(r, impl, P, left) ==
    IF r.tag = "Unsorted"
    THEN {}
    ELSE LET found == binary_search_by(impl, r.len,
                          [j \in 0..(r.len - 1) |-> reverse(P[<<left, j>>])])
         IN  IF found.ok
             THEN found.probes \cup get_range_start_reads(P, left, found.pos)
                               \cup get_range_end_reads(r, P, left, found.pos)
             ELSE found.probes

\* ----------------------------------------------------- iterator plumbing
\* An output element.  l is the index of the LHS record; r is the sequence of
\* RHS indices paired with it: <<j>> for (l, r) and (l, Some(r)), <<>> for
\* (l, None) and for a bare l, the whole Vec for a grouped element.
Elem(l, r) == [l |-> l, r |-> r]

\* The iterator struct at the entry of next(), with the locals of the call:
\* pulled counts lhs_iter.next() calls that returned a record, ret is the
\* returned Option<Item>, ctl tells the loop whether the body returned.
\* The call is traced: iters counts the iterations of `loop`, reads is the
\* set of RHS slice indices read, evals the predicate evaluations of the
\* seek, each as <<LHS index, RHS index, lo, hi>> with (lo, hi) the rhs_range
\* the seek started from.
Enter(li, cl, rr) ==
    [lhs_iter |-> li, current_left |-> cl, rhs_range |-> rr,
     is_first |-> FALSE, pulled |-> 0, ret |-> <<>>, ctl |-> "seek",
     iters |-> 0, reads |-> {}, evals |-> {}]

\* ------------------------------------------------------------ joined.rs
\* Joinable::inner_join / Joinable::outer_join: the constructed iterator
NewJoinedEach == Enter(0, <<>>, <<1, 0>>)

\* the indices the for loop evaluates the predicate at, from i on
RECURSIVE scan_unsorted_evals(_, _, _, _)
scan_unsorted_evals(P, left, i, hi) ==
    IF i < hi
    THEN {i} \cup (IF P[<<left, i>>] = "Equal" THEN {}
                   ELSE scan_unsorted_evals(P, left, i + 1, hi))
    ELSE {}

\* the iterator after the for loop of the Unsorted arm has run, traced
Scanned(P, self) ==
    LET left == self.current_left[1]
        lo == self.rhs_range[1]
        hi == self.rhs_range[2]
        at == scan_unsorted_evals(P, left, lo, hi)
    IN  [self EXCEPT !.reads = @ \cup at,
                     !.evals = @ \cup {<<left, j, lo, hi>> : j \in at}]

\* the scan stopping one index short of hi
RECURSIVE scan_unsorted_short(_, _, _, _)
scan_unsorted_short(P, left, i, hi) ==
    IF i + 1 < hi
    THEN IF P[<<left, i>>] = "Equal" THEN i ELSE scan_unsorted_short(P, left, i + 1, hi)
    ELSE IF i < hi THEN hi ELSE i

\* for i in lo..hi { if predicate(left, &u[i]).is_eq() { ... return } }:
\* the first index in lo..hi-1 that compares Equal, or an index >= hi when
\* the loop runs to its end
RECURSIVE scan_unsorted(_, _, _, _)
scan_unsorted(P, left, i, hi) ==
    IF i < hi
    THEN IF P[<<left, i>>] = "Equal" THEN i ELSE scan_unsorted(P, left, i + 1, hi)
    ELSE i

\* `let left = ...` calling lhs_iter.next() before looking at current_left
JoinedEachInner_left_eager(r, impl, P, n, self) ==
    IF self.current_left # <<>>
    THEN IF self.lhs_iter < n
         THEN [self EXCEPT !.lhs_iter = @ + 1, !.pulled = @ + 1, !.ctl = "seek"]
         ELSE [self EXCEPT !.ctl = "seek"]
    ELSE IF self.lhs_iter < n
    THEN [self EXCEPT !.rhs_range = get_range(r, impl, P, self.lhs_iter),
                      !.reads = @ \cup get_range_reads(r, impl, P, self.lhs_iter),
                      !.current_left = <<self.lhs_iter>>,
                      !.lhs_iter = @ + 1,
                      !.pulled = @ + 1,
                      !.ctl = "seek"]
    ELSE [self EXCEPT !.rhs_range = <<1, 0>>,
                      !.current_left = <<>>,
                      !.ret = <<>>,
                      !.ctl = "return"]

\* `let left = ...` without the reset of rhs_range on exhaustion
JoinedEachInner_left_no_reset(r, impl, P, n, self) ==
    IF self.current_left # <<>>
    THEN [self EXCEPT !.ctl = "seek"]
    ELSE IF self.lhs_iter < n
    THEN [self EXCEPT !.rhs_range = get_range(r, impl, P, self.lhs_iter),
                      !.reads = @ \cup get_range_reads(r, impl, P, self.lhs_iter),
                      !.current_left = <<self.lhs_iter>>,
                      !.lhs_iter = @ + 1,
                      !.pulled = @ + 1,
                      !.ctl = "seek"]
    ELSE [self EXCEPT !.current_left = <<>>,
                      !.ret = <<>>,
                      !.ctl = "return"]

\* `let left = ...` keeping a non-empty rhs_range left by the previous record
JoinedEachInner_left_stale(r, impl, P, n, self) ==
    IF self.current_left # <<>>
    THEN [self EXCEPT !.ctl = "seek"]
    ELSE IF self.lhs_iter < n
    THEN [self EXCEPT !.rhs_range = IF self.rhs_range[1] < self.rhs_range[2]
                                    THEN self.rhs_range
                                    ELSE get_range(r, impl, P, self.lhs_iter),
                      !.reads = @ \cup get_range_reads(r, impl, P, self.lhs_iter),
                      !.current_left = <<self.lhs_iter>>,
                      !.lhs_iter = @ + 1,
                      !.pulled = @ + 1,
                      !.ctl = "seek"]
    ELSE [self EXCEPT !.rhs_range = <<1, 0>>,
                      !.current_left = <<>>,
                      !.ret = <<>>,
                      !.ctl = "return"]

\* JoinedEachInner::next, `let left = ...`
JoinedEachInner_left(r, impl, P, n, self) ==
    IF self.current_left # <<>>
    THEN [self EXCEPT !.ctl = "seek"]
    ELSE IF self.lhs_iter < n
    THEN [self EXCEPT !.rhs_range = get_range(r, impl, P, self.lhs_iter),
                      !.reads = @ \cup get_range_reads(r, impl, P, self.lhs_iter),
                      !.current_left = <<self.lhs_iter>>,
                      !.lhs_iter = @ + 1,
                      !.pulled = @ + 1,
                      !.ctl = "seek"]
    ELSE [self EXCEPT !.rhs_range = <<1, 0>>,
                      !.current_left = <<>>,
                      !.ret = <<>>,
                      !.ctl = "return"]

\* `match self.rhs` with the Unsorted arm scanning `for i in 0..hi`
JoinedEachInner_match_from_zero(r, P, self) ==
    LET left == self.current_left[1]
        lo == self.rhs_range[1]
        hi == self.rhs_range[2]
        at == scan_unsorted_evals(P, left, 0, hi)
        scanned == [self EXCEPT !.reads = @ \cup at,
                                !.evals = @ \cup {<<left, j, lo, hi>> : j \in at}]
    IN  IF r.tag = "Unsorted"
        THEN LET i == scan_unsorted(P, left, 0, hi)
             IN  IF i < hi
                 THEN [scanned EXCEPT !.rhs_range = <<i + 1, hi>>,
                                      !.ret = <<Elem(left, <<i>>)>>,
                                      !.ctl = "return"]
                 ELSE [scanned EXCEPT !.current_left = <<>>, !.ctl = "continue"]
        ELSE IF lo < hi
             THEN [self EXCEPT !.rhs_range = <<lo + 1, hi>>,
                               !.reads = @ \cup {lo},
                               !.ret = <<Elem(left, <<lo>>)>>,
                               !.ctl = "return"]
             ELSE [self EXCEPT !.current_left = <<>>, !.ctl = "continue"]

\* `match self.rhs` indexing the Sorted slice with rhs_range.0 after the increment
JoinedEachInner_match_after_increment(r, P, self) ==
    LET left == self.current_left[1]
        lo == self.rhs_range[1]
        hi == self.rhs_range[2]
    IN  IF r.tag = "Unsorted"
        THEN LET i == scan_unsorted(P, left, lo, hi)
             IN  IF i < hi
                 THEN [Scanned(P, self) EXCEPT !.rhs_range = <<i + 1, hi>>,
                                   !.ret = <<Elem(left, <<i>>)>>,
                                   !.ctl = "return"]
                 ELSE [Scanned(P, self) EXCEPT !.current_left = <<>>, !.ctl = "continue"]
        ELSE IF lo < hi
             THEN [self EXCEPT !.rhs_range = <<lo + 1, hi>>,
                               !.reads = @ \cup {lo + 1},
                               !.ret = <<Elem(left, <<lo + 1>>)>>,
                               !.ctl = "return"]
             ELSE [self EXCEPT !.current_left = <<>>, !.ctl = "continue"]

\* JoinedEachInner::next, `match self.rhs`
JoinedEachInner_match(r, P, self) ==
    LET left == self.current_left[1]
        lo == self.rhs_range[1]
        hi == self.rhs_range[2]
    IN  IF r.tag = "Unsorted"
        THEN LET i == scan_unsorted(P, left, lo, hi)
             IN  IF i < hi
                 THEN [Scanned(P, self) EXCEPT !.rhs_range = <<i + 1, hi>>,
                                   !.ret = <<Elem(left, <<i>>)>>,
                                   !.ctl = "return"]
                 ELSE [Scanned(P, self) EXCEPT !.current_left = <<>>, !.ctl = "continue"]
        ELSE IF lo < hi
             THEN [self EXCEPT !.rhs_range = <<lo + 1, hi>>,
                               !.reads = @ \cup {lo},
                               !.ret = <<Elem(left, <<lo>>)>>,
                               !.ctl = "return"]
             ELSE [self EXCEPT !.current_left = <<>>, !.ctl = "continue"]

\* JoinedEachInner::next
RECURSIVE JoinedEachInner_next(_, _, _, _, _)
JoinedEachInner_next(r, impl, P, n, self) ==
    LET t == JoinedEachInner_left(r, impl, P, n, [self EXCEPT !.iters = @ + 1])
    IN  IF t.ctl = "return"
        THEN t
        ELSE LET m == JoinedEachInner_match(r, P, t)
             IN  IF m.ctl = "return" THEN m
                 ELSE JoinedEachInner_next(r, impl, P, n, m)

\* JoinedEachOuter::next, `let (left, is_first) = ...`
JoinedEachOuter_left(r, impl, P, n, self) ==
    IF self.current_left # <<>>
    THEN [self EXCEPT !.is_first = FALSE, !.ctl = "seek"]
    ELSE IF self.lhs_iter < n
    THEN [self EXCEPT !.rhs_range = get_range(r, impl, P, self.lhs_iter),
                      !.reads = @ \cup get_range_reads(r, impl, P, self.lhs_iter),
                      !.current_left = <<self.lhs_iter>>,
                      !.lhs_iter = @ + 1,
                      !.pulled = @ + 1,
                      !.is_first = TRUE,
                      !.ctl = "seek"]
    ELSE [self EXCEPT !.rhs_range = <<1, 0>>,
                      !.current_left = <<>>,
                      !.ret = <<>>,
                      !.ctl = "return"]

\* `match self.rhs` yielding (l, None) whenever the seek fails, is_first or not
JoinedEachOuter_match_none_again(r, P, self) ==
    LET left == self.current_left[1]
        lo == self.rhs_range[1]
        hi == self.rhs_range[2]
    IN  IF r.tag = "Unsorted"
        THEN LET i == scan_unsorted(P, left, lo, hi)
             IN  IF i < hi
                 THEN [Scanned(P, self) EXCEPT !.rhs_range = <<i + 1, hi>>,
                                   !.ret = <<Elem(left, <<i>>)>>,
                                   !.ctl = "return"]
                 ELSE [Scanned(P, self) EXCEPT !.ret = <<Elem(left, <<>>)>>, !.ctl = "return"]
        ELSE IF lo < hi
             THEN [self EXCEPT !.rhs_range = <<lo + 1, hi>>,
                               !.reads = @ \cup {lo},
                               !.ret = <<Elem(left, <<lo>>)>>,
                               !.ctl = "return"]
             ELSE [self EXCEPT !.ret = <<Elem(left, <<>>)>>, !.ctl = "return"]

\* `match self.rhs` without the is_first arms: no (l, None) is ever yielded
JoinedEachOuter_match_no_none(r, P, self) ==
    LET left == self.current_left[1]
        lo == self.rhs_range[1]
        hi == self.rhs_range[2]
    IN  IF r.tag = "Unsorted"
        THEN LET i == scan_unsorted(P, left, lo, hi)
             IN  IF i < hi
                 THEN [Scanned(P, self) EXCEPT !.rhs_range = <<i + 1, hi>>,
                                   !.ret = <<Elem(left, <<i>>)>>,
                                   !.ctl = "return"]
                 ELSE [Scanned(P, self) EXCEPT !.current_left = <<>>, !.ctl = "continue"]
        ELSE IF lo < hi
             THEN [self EXCEPT !.rhs_range = <<lo + 1, hi>>,
                               !.reads = @ \cup {lo},
                               !.ret = <<Elem(left, <<lo>>)>>,
                               !.ctl = "return"]
             ELSE [self EXCEPT !.current_left = <<>>, !.ctl = "continue"]

\* JoinedEachOuter::next, `match self.rhs`
JoinedEachOuter_match(r, P, self) ==
    LET left == self.current_left[1]
        lo == self.rhs_range[1]
        hi == self.rhs_range[2]
    IN  IF r.tag = "Unsorted"
        THEN LET i == scan_unsorted(P, left, lo, hi)
             IN  IF i < hi
                 THEN [Scanned(P, self) EXCEPT !.rhs_range = <<i + 1, hi>>,
                                   !.ret = <<Elem(left, <<i>>)>>,
                                   !.ctl = "return"]
                 ELSE IF self.is_first
                 THEN [Scanned(P, self) EXCEPT !.ret = <<Elem(left, <<>>)>>, !.ctl = "return"]
                 ELSE [Scanned(P, self) EXCEPT !.current_left = <<>>, !.ctl = "continue"]
        ELSE IF lo < hi
             THEN [self EXCEPT !.rhs_range = <<lo + 1, hi>>,
                               !.reads = @ \cup {lo},
                               !.ret = <<Elem(left, <<lo>>)>>,
                               !.ctl = "return"]
             ELSE IF self.is_first
             THEN [self EXCEPT !.ret = <<Elem(left, <<>>)>>, !.ctl = "return"]
             ELSE [self EXCEPT !.current_left = <<>>, !.ctl = "continue"]

\* JoinedEachOuter::next
RECURSIVE JoinedEachOuter_next(_, _, _, _, _)
JoinedEachOuter_next(r, impl, P, n, self) ==
    LET t == JoinedEachOuter_left(r, impl, P, n, [self EXCEPT !.iters = @ + 1])
    IN  IF t.ctl = "return"
        THEN t
        ELSE LET m == JoinedEachOuter_match(r, P, t)
             IN  IF m.ctl = "return" THEN m
                 ELSE JoinedEachOuter_next(r, impl, P, n, m)

\* ---------------------------------------------------- joined_grouped.rs
\* JoinableGrouped::{inner_join_grouped, outer_join_grouped, semi_join,
\* anti_join}: the constructed iterator (no current_left, no rhs_range)
NewJoinedGrouped == Enter(0, <<>>, <<1, 0>>)

\* the join_type each factory stores
JoinType(o) ==
    CASE o \in {"inner_join", "inner_join_grouped"} -> "Inner"
      [] o \in {"outer_join", "outer_join_grouped"} -> "Outer"
      [] o = "semi_join" -> "Semi"
      [] OTHER -> "Anti"

\* the filter keeping is_le() instead of is_eq()
RECURSIVE filter_le(_, _, _, _)
filter_le(r, P, left, j) ==
    IF j < r.len
    THEN (IF P[<<left, j>>] # "Greater" THEN <<j>> ELSE <<>>) \o filter_le(r, P, left, j + 1)
    ELSE <<>>

\* inner.iter().filter(|r| predicate(&left, r).is_eq()).collect()
RECURSIVE filter_eq(_, _, _, _)
filter_eq(r, P, left, j) ==
    IF j < r.len
    THEN (IF P[<<left, j>>] = "Equal" THEN <<j>> ELSE <<>>) \o filter_eq(r, P, left, j + 1)
    ELSE <<>>

\* the gather starting at the position the bisection found, without the walk left
gather_first_stay(P, left, pos) == pos

\* while pos > 0 && predicate(&left, &inner[pos - 1]).is_eq() { pos -= 1 }
RECURSIVE gather_first(_, _, _)
gather_first(P, left, pos) ==
    IF pos > 0 /\ P[<<left, pos - 1>>] = "Equal"
    THEN gather_first(P, left, pos - 1)
    ELSE pos

\* while pos < inner.len() && predicate(&left, &inner[pos]).is_eq() { rs.push; pos += 1 }
RECURSIVE gather_push(_, _, _, _)
gather_push(r, P, left, pos) ==
    IF pos < r.len /\ P[<<left, pos>>] = "Equal"
    THEN <<pos>> \o gather_push(r, P, left, pos + 1)
    ELSE <<>>

\* the slice indices the walk to the first of the run reads: inner[pos - 1]
RECURSIVE gather_first_reads(_, _, _)
gather_first_reads(P, left, pos) ==
    IF pos > 0
    THEN {pos - 1} \cup (IF P[<<left, pos - 1>>] = "Equal"
                         THEN gather_first_reads(P, left, pos - 1)
                         ELSE {})
    ELSE {}

\* the slice indices the collecting walk reads: inner[pos]
RECURSIVE gather_push_reads(_, _, _, _)
gather_push_reads(r, P, left, pos) ==
    IF pos < r.len
    THEN {pos} \cup (IF P[<<left, pos>>] = "Equal"
                     THEN gather_push_reads(r, P, left, pos + 1)
                     ELSE {})
    ELSE {}

\* the slice indices `let rs = match self.rhs` reads
gather_reads(r, impl, P, left) ==
    IF r.tag = "Unsorted"
    THEN 0..(r.len - 1)
    ELSE LET found == binary_search_by(impl, r.len,
                          [j \in 0..(r.len - 1) |-> P[<<left, j>>]])
         IN  IF found.ok
             THEN found.probes
                  \cup gather_first_reads(P, left, found.pos)
                  \cup gather_push_reads(r, P, left, gather_first(P, left, found.pos))
             ELSE found.probes

\* JoinedGrouped::next, `let rs = match self.rhs`
gather(r, impl, P, left) ==
    IF r.tag = "Unsorted"
    THEN filter_eq(r, P, left, 0)
    ELSE LET found == binary_search_by(impl, r.len,
                          [j \in 0..(r.len - 1) |-> P[<<left, j>>]])
         IN  IF found.ok
             THEN gather_push(r, P, left, gather_first(P, left, found.pos))
             ELSE <<>>

\* `match self.join_type` returning the element for Inner whatever rs is
JoinedGrouped_emit_always(join_type, left, rs, self) ==
    [self EXCEPT !.ret = <<Elem(left, rs)>>, !.ctl = "return"]

\* `match self.join_type` skipping an empty rs for Outer as well
JoinedGrouped_emit_skip_empty(join_type, left, rs, self) ==
    IF rs # <<>>
    THEN [self EXCEPT !.ret = <<Elem(left, rs)>>, !.ctl = "return"]
    ELSE [self EXCEPT !.ctl = "continue"]

\* JoinedGrouped::next, `match self.join_type`
JoinedGrouped_emit(join_type, left, rs, self) ==
    IF join_type = "Inner"
    THEN IF rs # <<>>
         THEN [self EXCEPT !.ret = <<Elem(left, rs)>>, !.ctl = "return"]
         ELSE [self EXCEPT !.ctl = "continue"]
    ELSE [self EXCEPT !.ret = <<Elem(left, rs)>>, !.ctl = "return"]

\* JoinedGrouped::next
RECURSIVE JoinedGrouped_next(_, _, _, _, _, _)
JoinedGrouped_next(join_type, r, impl, P, n, self) ==
    IF self.lhs_iter < n
    THEN LET left == self.lhs_iter
             s == [self EXCEPT !.lhs_iter = @ + 1, !.pulled = @ + 1,
                               !.iters = @ + 1,
                               !.reads = @ \cup gather_reads(r, impl, P, left)]
             e == JoinedGrouped_emit(join_type, left, gather(r, impl, P, left), s)
         IN  IF e.ctl = "return" THEN e
             ELSE JoinedGrouped_next(join_type, r, impl, P, n, e)
    ELSE [self EXCEPT !.iters = @ + 1, !.ret = <<>>, !.ctl = "return"]

\* `match self.join_type` with the Anti guard missing its negation
JoinedLeft_emit_anti_unnegated(join_type, left, has_right, self) ==
    IF join_type = "Semi" /\ has_right
    THEN [self EXCEPT !.ret = <<Elem(left, <<>>)>>, !.ctl = "return"]
    ELSE IF join_type = "Anti" /\ has_right
    THEN [self EXCEPT !.ret = <<Elem(left, <<>>)>>, !.ctl = "return"]
    ELSE [self EXCEPT !.ctl = "continue"]

\* JoinedLeft::next, `match self.join_type`
JoinedLeft_emit(join_type, left, has_right, self) ==
    IF join_type = "Semi" /\ has_right
    THEN [self EXCEPT !.ret = <<Elem(left, <<>>)>>, !.ctl = "return"]
    ELSE IF join_type = "Anti" /\ ~has_right
    THEN [self EXCEPT !.ret = <<Elem(left, <<>>)>>, !.ctl = "return"]
    ELSE [self EXCEPT !.ctl = "continue"]

\* JoinedLeft::next
RECURSIVE JoinedLeft_next(_, _, _, _, _, _)
JoinedLeft_next(join_type, r, impl, P, n, self) ==
    IF self.lhs_iter < n
    THEN LET left == self.lhs_iter
             s == [self EXCEPT !.lhs_iter = @ + 1, !.pulled = @ + 1,
                               !.iters = @ + 1,
                               !.reads = @ \cup has_value_reads(r, impl, P, left)]
             e == JoinedLeft_emit(join_type, left, has_value(r, impl, P, left), s)
         IN  IF e.ctl = "return" THEN e
             ELSE JoinedLeft_next(join_type, r, impl, P, n, e)
    ELSE [self EXCEPT !.iters = @ + 1, !.ret = <<>>, !.ctl = "return"]

\* ------------------------------------------------------- state machine
Ops == {"inner_join", "outer_join", "inner_join_grouped", "outer_join_grouped",
        "semi_join", "anti_join"}
PerMatchOps == {"inner_join", "outer_join"}
GroupedOps == {"inner_join_grouped", "outer_join_grouped"}
LeftOps == {"semi_join", "anti_join"}

RhsOf(tag, len) == [tag |-> tag, len |-> len]

\* next() of the iterator that factory o constructs
NextOf(o, r, impl, P, n, self) ==
    CASE o = "inner_join" -> JoinedEachInner_next(r, impl, P, n, self)
      [] o = "outer_join" -> JoinedEachOuter_next(r, impl, P, n, self)
      [] o \in GroupedOps -> JoinedGrouped_next(JoinType(o), r, impl, P, n, self)
      [] OTHER -> JoinedLeft_next(JoinType(o), r, impl, P, n, self)

\* Iterator::collect: call next() until it returns None
RECURSIVE Drain(_, _, _, _, _, _)
Drain(o, r, impl, P, n, self) ==
    LET res == NextOf(o, r, impl, P, n,
                      Enter(self.lhs_iter, self.current_left, self.rhs_range))
    IN  IF res.ret = <<>> THEN <<>>
        ELSE res.ret \o Drain(o, r, impl, P, n, res)

Collect(o, r, impl, P, n) == Drain(o, r, impl, P, n, Enter(0, <<>>, <<1, 0>>))

\* the inputs of one run: the state right after the factory call
InitInputs ==
    \/ /\ lhs_len \in 0..MaxLhs
       /\ \E len \in 0..MaxRhs, tag \in {"Unsorted", "Sorted"} :
            /\ lhs_len * len <= MaxCells
            /\ rhs = RhsOf(tag, len)
            /\ predicate \in [(0..(lhs_len - 1)) \X (0..(len - 1)) -> Ordering]
    \/ /\ lhs_len = Len(LEFT_ITEMS)
       /\ \E tag \in {"Unsorted", "Sorted"} : rhs = RhsOf(tag, Len(RIGHT_ITEMS))
       /\ predicate = TestPredicate

Init ==
    /\ InitInputs
    /\ search_impl \in (IF rhs.tag = "Sorted" THEN SearchImpls ELSE {"early_return"})
    /\ op \in Ops
    /\ lhs_iter = 0
    /\ current_left = <<>>
    /\ rhs_range = <<1, 0>>
    /\ out = <<>>
    /\ last = "init"
    /\ pulled = 0
    /\ iters = 0
    /\ reads = {}
    /\ evals = {}
    /\ nones = 0

Self == Enter(lhs_iter, current_left, rhs_range)

\* the caller takes the result of one call of next()
Advance(res) ==
    /\ lhs_iter' = res.lhs_iter
    /\ current_left' = res.current_left
    /\ rhs_range' = res.rhs_range
    /\ pulled' = res.pulled
    /\ iters' = res.iters
    /\ reads' = res.reads
    /\ evals' = res.evals
    /\ out' = out \o res.ret
    /\ last' = IF res.ret = <<>> THEN "none" ELSE "some"
    /\ nones' = IF res.ret = <<>> THEN nones + 1 ELSE nones
    /\ UNCHANGED inputs

JoinedEachInnerNext ==
    /\ op = "inner_join"
    /\ nones < MaxNones
    /\ Advance(JoinedEachInner_next(rhs, search_impl, predicate, lhs_len, Self))

JoinedEachOuterNext ==
    /\ op = "outer_join"
    /\ nones < MaxNones
    /\ Advance(JoinedEachOuter_next(rhs, search_impl, predicate, lhs_len, Self))

JoinedGroupedNext ==
    /\ op \in GroupedOps
    /\ nones < MaxNones
    /\ Advance(JoinedGrouped_next(JoinType(op), rhs, search_impl, predicate, lhs_len, Self))

JoinedLeftNext ==
    /\ op \in LeftOps
    /\ nones < MaxNones
    /\ Advance(JoinedLeft_next(JoinType(op), rhs, search_impl, predicate, lhs_len, Self))

Next ==
    \/ JoinedEachInnerNext
    \/ JoinedEachOuterNext
    \/ JoinedGroupedNext
    \/ JoinedLeftNext

Spec == Init /\ [][Next]_vars

TypeOK ==
    /\ lhs_len \in Nat
    /\ rhs.tag \in {"Unsorted", "Sorted"}
    /\ op \in Ops
    /\ lhs_iter \in 0..lhs_len
    /\ Len(current_left) <= 1
    /\ last \in {"init", "some", "none"}
    /\ nones \in 0..MaxNones

\* ------------------------------------------------- vocabulary of the claims
Rank(o) == CASE o = "Less" -> 0 [] o = "Equal" -> 1 [] OTHER -> 2

\* B is ordered as the data model requires of a Sorted slice: for every LHS
\* record a prefix of Greater, a contiguous run of Equal, a suffix of Less
SortedAsSpec ==
    \A l \in 0..(lhs_len - 1) : \A j, k \in 0..(rhs.len - 1) :
        j < k => Rank(predicate[<<l, j>>]) >= Rank(predicate[<<l, k>>])

\* the opposite arrangement: Less, then Equal, then Greater.  It is what
\* ascending keys give under a predicate written compare(key(r), l)
SortedRhsFirst ==
    \A l \in 0..(lhs_len - 1) : \A j, k \in 0..(rhs.len - 1) :
        j < k => Rank(predicate[<<l, j>>]) <= Rank(predicate[<<l, k>>])

Exhausted == last = "none"

MatchSet(l) == {j \in 0..(rhs.len - 1) : predicate[<<l, j>>] = "Equal"}

RECURSIVE Ascending(_)
Ascending(S) ==
    IF S = {} THEN <<>>
    ELSE LET x == CHOOSE y \in S : \A z \in S : y <= z
         IN  <<x>> \o Ascending(S \ {x})

\* all B[j] with P(A[l], B[j]) = Equal, in increasing j
Matches(l) == Ascending(MatchSet(l))

Unsorted == RhsOf("Unsorted", rhs.len)

OutOf(o, r) == Collect(o, r, search_impl, predicate, lhs_len)

IsPrefix(s, t) == Len(s) <= Len(t) /\ \A k \in 1..Len(s) : s[k] = t[k]

LeftsOf(s) == {s[k].l : k \in 1..Len(s)}

StrictlyIncreasingLeft(s) == \A k \in 1..(Len(s) - 1) : s[k].l < s[k + 1].l

\* ---------------------------------------------------------------- C1
\* C1: for inner_join_grouped, outer_join_grouped, semi_join and anti_join,
\* when B is ordered as the spec requires of a Sorted slice, the output with
\* B wrapped as Sorted is the output with B wrapped as Unsorted.
C1_GroupedSortedAsUnsorted ==
    (Exhausted /\ op \in (GroupedOps \cup LeftOps) /\ rhs.tag = "Sorted" /\ SortedAsSpec)
        => out = OutOf(op, Unsorted)

\* ---------------------------------------------------------------- C2
\* C2: for inner_join and outer_join, when B is ordered as the spec requires
\* of a Sorted slice, the output with B wrapped as Sorted is the output with
\* B wrapped as Unsorted (and every element yielded on the way is a prefix
\* of it).
C2_PerMatchSortedAsUnsorted ==
    (op \in PerMatchOps /\ rhs.tag = "Sorted" /\ SortedAsSpec)
        => /\ IsPrefix(out, OutOf(op, Unsorted))
           /\ Exhausted => out = OutOf(op, Unsorted)

C2_Witness ==
    /\ Exhausted /\ op \in PerMatchOps /\ rhs.tag = "Sorted" /\ SortedAsSpec
    /\ rhs.len >= 3
    /\ \E a, b \in 1..Len(out) :
          /\ out[a].l = out[b].l /\ out[a].r = <<1>> /\ out[b].r = <<2>>
    /\ \E l \in 0..(lhs_len - 1) : predicate[<<l, 0>>] = "Greater"

\* ---------------------------------------------------------------- C3
RECURSIVE EqualPairsFrom(_)
EqualPairsFrom(i) ==
    IF i < lhs_len
    THEN [k \in 1..Len(Matches(i)) |-> Elem(i, <<Matches(i)[k]>>)] \o EqualPairsFrom(i + 1)
    ELSE <<>>

\* C3: inner_join over an Unsorted B yields exactly the pairs (A[i], B[j])
\* with P(A[i], B[j]) = Equal, each once, ordered by i and then by j.
C3_InnerYieldsEqualPairs ==
    (op = "inner_join" /\ rhs.tag = "Unsorted")
        => /\ IsPrefix(out, EqualPairsFrom(0))
           /\ Exhausted => out = EqualPairsFrom(0)

C3_Witness ==
    /\ Exhausted /\ op = "inner_join" /\ rhs.tag = "Unsorted"
    /\ Len(out) >= 3
    /\ \E a \in 1..Len(out) :
          /\ out[a].r = <<0>>
          /\ a < Len(out) /\ out[a + 1] = Elem(out[a].l, <<2>>)

\* ---------------------------------------------------------------- C4
InnerFor(inner, i) == SelectSeq(inner, LAMBDA e : e.l = i)

RECURSIVE WithNones(_, _)
WithNones(inner, i) ==
    IF i < lhs_len
    THEN (IF InnerFor(inner, i) = <<>> THEN <<Elem(i, <<>>)>> ELSE InnerFor(inner, i))
         \o WithNones(inner, i + 1)
    ELSE <<>>

\* a wrapper the data model allows: Unsorted, or Sorted over a slice ordered
\* consistently with the predicate
ValidWrapper == rhs.tag = "Unsorted" \/ SortedAsSpec

\* C4: the output of outer_join is the output of inner_join with one
\* (l, none) inserted, at its LHS position, for each LHS record that has no
\* match; a record with a match never produces (l, none).
C4_OuterIsInnerWithNones ==
    (Exhausted /\ op = "outer_join")
        => LET inner == OutOf("inner_join", rhs)
           IN  /\ out = WithNones(inner, 0)
               /\ ValidWrapper =>
                    \A i \in 0..(lhs_len - 1) :
                        /\ (InnerFor(inner, i) = <<>>) <=> (MatchSet(i) = {})
                        /\ MatchSet(i) # {} =>
                             \A k \in 1..Len(out) : out[k] # Elem(i, <<>>)

C4_Witness ==
    /\ Exhausted /\ op = "outer_join"
    /\ \E a, b \in 1..Len(out) :
          /\ a < b /\ out[a].r = <<>> /\ out[b].r # <<>>
    /\ Len(out) > lhs_len

\* ---------------------------------------------------------------- C5
\* C5: outer_join_grouped over an Unsorted B emits |A| elements, the k-th
\* being (A[k], all B[j] with P(A[k], B[j]) = Equal in increasing j).
C5_OuterGroupedAllMatches ==
    (op = "outer_join_grouped" /\ rhs.tag = "Unsorted")
        => /\ \A k \in 1..Len(out) : out[k] = Elem(k - 1, Matches(k - 1))
           /\ Exhausted => Len(out) = lhs_len

C5_Witness ==
    /\ Exhausted /\ op = "outer_join_grouped" /\ rhs.tag = "Unsorted"
    /\ \E a, b \in 1..Len(out) : out[a].r = <<>> /\ out[b].r = <<0, 2>>

\* ---------------------------------------------------------------- C6
\* C6: inner_join_grouped never emits an empty collection, and its output is
\* the output of outer_join_grouped with the empty collections removed.
C6_InnerGroupedIsOuterGroupedNonEmpty ==
    op = "inner_join_grouped"
        => /\ \A k \in 1..Len(out) : out[k].r # <<>>
           /\ Exhausted =>
                out = SelectSeq(OutOf("outer_join_grouped", rhs), LAMBDA e : e.r # <<>>)

C6_Witness ==
    /\ Exhausted /\ op = "inner_join_grouped"
    /\ Len(out) >= 1 /\ Len(out) < lhs_len
    /\ out[1].l > 0

\* ---------------------------------------------------------------- C7
OtherLeftOp == IF op = "semi_join" THEN "anti_join" ELSE "semi_join"

\* C7: every position of A is emitted by exactly one of semi_join and
\* anti_join, and both outputs keep the order of A, whatever the wrapper.
C7_SemiAntiPartition ==
    (Exhausted /\ op \in LeftOps)
        => LET other == OutOf(OtherLeftOp, rhs)
           IN  /\ LeftsOf(out) \cup LeftsOf(other) = 0..(lhs_len - 1)
               /\ LeftsOf(out) \cap LeftsOf(other) = {}
               /\ StrictlyIncreasingLeft(out)
               /\ StrictlyIncreasingLeft(other)

C7_Witness ==
    /\ Exhausted /\ op = "anti_join" /\ rhs.tag = "Sorted" /\ ~SortedAsSpec
    /\ Len(out) = 1 /\ lhs_len = 2 /\ out[1].l = 1
    /\ MatchSet(1) # {}

\* ---------------------------------------------------------------- C8
RECURSIVE GroupsFrom(_)
GroupsFrom(i) ==
    IF i < lhs_len
    THEN (IF MatchSet(i) = {} THEN <<>> ELSE <<Elem(i, Matches(i))>>) \o GroupsFrom(i + 1)
    ELSE <<>>

\* C8: over a Sorted B in ascending key order with the predicate written
\* compare(key(r), l), inner_join_grouped yields, for each LHS value that has
\* a match, all the RHS records equal to it in array order, and nothing for
\* the other LHS values.
C8_SortedRhsFirstGrouped ==
    (Exhausted /\ op = "inner_join_grouped" /\ rhs.tag = "Sorted" /\ SortedRhsFirst)
        => out = GroupsFrom(0)

C8_Witness ==
    /\ Exhausted /\ op = "inner_join_grouped" /\ rhs.tag = "Sorted" /\ SortedRhsFirst
    /\ Len(out) >= 1 /\ Len(out) < lhs_len
    /\ \E a \in 1..Len(out) : out[a].r = <<0, 1>>
    /\ rhs.len >= 3

\* ---------------------------------------------------------------- C9
\* C9: a single advance pulls at most one new record from the LHS sequence.
C9_AtMostOnePull == pulled <= 1

\* the records the latest advance pulled and left behind
SkippedByLast ==
    (lhs_iter - pulled)..(IF last = "some" THEN lhs_iter - 2 ELSE lhs_iter - 1)

\* C9 (amended): outer_join and outer_join_grouped pull at most one record
\* per advance; the other operators pull until a record produces an element
\* or the LHS is exhausted, so every record an advance pulls except the one
\* it yields for has no output element.
C9_PullsUntilOutput ==
    /\ op \in {"outer_join", "outer_join_grouped"} => pulled <= 1
    /\ \A k \in 1..Len(out) : out[k].l \notin SkippedByLast
    /\ pulled >= 1 /\ last = "some" => out[Len(out)].l = lhs_iter - 1

C9_Witness ==
    /\ pulled >= 2 /\ last = "some" /\ op = "inner_join"

\* ---------------------------------------------------------------- C10
\* C10: in inner_join and outer_join the elements of one LHS record are
\* consecutive in the output, and an element is only ever yielded for the
\* record pulled last: none for record i once record i+1 has been pulled.
C10_DrainBeforeNextLeft ==
    op \in PerMatchOps
        => /\ \A k \in 1..(Len(out) - 1) : out[k].l <= out[k + 1].l
           /\ last = "some" => out[Len(out)].l = lhs_iter - 1
           /\ \A k \in 1..Len(out) : out[k].l < lhs_iter

C10_Witness ==
    /\ op \in PerMatchOps /\ Len(out) >= 3
    /\ out[1].l = out[2].l /\ out[2].l < out[3].l
    /\ out[3].r # <<>>

\* ---------------------------------------------------------------- C11
MisOrdered == rhs.tag = "Sorted" /\ ~SortedAsSpec /\ ~SortedRhsFirst

\* C11: over a Sorted wrapper, whatever the order of the slice, every RHS
\* index an advance reads (bisection probes, the walks of get_range and of
\* the gather, the per-match iterators' s[..]) and every index it yields is
\* within 0..len-1, and an advance runs a bounded number of loop iterations:
\* at most one per record it pulls, one for the record it entered with and
\* one to find the LHS exhausted.
C11_SortedReadsInBounds ==
    rhs.tag = "Sorted"
        => /\ reads \subseteq 0..(rhs.len - 1)
           /\ \A k \in 1..Len(out) : \A x \in 1..Len(out[k].r) :
                 out[k].r[x] \in 0..(rhs.len - 1)
           /\ iters <= pulled + 2
           /\ pulled <= lhs_len

C11_Witness ==
    /\ MisOrdered /\ rhs.len >= 3 /\ last = "some"
    /\ 0 \in reads /\ (rhs.len - 1) \in reads
    /\ out[Len(out)].r # <<>>

\* ---------------------------------------------------------------- C12
\* one advance of a per-match iterator, seen from exhaustion
ExhaustedStep ==
    op \in PerMatchOps
        => /\ last' = "none" => (current_left' = <<>> /\ rhs_range' = <<1, 0>>)
           /\ last = "none" => /\ last' = "none"
                               /\ out' = out
                               /\ UNCHANGED <<lhs_iter, current_left, rhs_range>>

\* C12: in inner_join and outer_join the advance that finds the LHS exhausted
\* returns none with current_left empty and rhs_range = (1, 0), and every
\* later advance returns none, yields nothing and leaves that state as it is.
C12_ExhaustedStaysExhausted == [][ExhaustedStep]_vars

C12_Witness ==
    /\ op \in PerMatchOps /\ nones = 2 /\ Len(out) >= 2
    /\ rhs_range = <<1, 0>> /\ current_left = <<>>
    /\ out[Len(out)].r = <<rhs.len - 1>>

\* ---------------------------------------------------------------- C13
\* C13: over a Sorted slice ordered as the spec requires, get_range(l, P) is
\* the half-open range of exactly the indices j with P(l, rhs[j]) = Equal
\* when there is one, and (1, 0) when there is none; the per-match iterator
\* holding l keeps that upper end and a lower end inside the run.
C13_GetRangeIsEqualRun ==
    (rhs.tag = "Sorted" /\ SortedAsSpec)
        => /\ \A l \in 0..(lhs_len - 1) :
                LET g == get_range(rhs, search_impl, predicate, l)
                IN  IF MatchSet(l) # {}
                    THEN g[1] < g[2] /\ g[1]..(g[2] - 1) = MatchSet(l)
                    ELSE g = <<1, 0>>
           /\ (op \in PerMatchOps /\ current_left # <<>>)
                => LET g == get_range(rhs, search_impl, predicate, current_left[1])
                   IN  rhs_range[2] = g[2] /\ g[1] <= rhs_range[1]

C13_Witness ==
    /\ rhs.tag = "Sorted" /\ SortedAsSpec /\ op = "inner_join"
    /\ current_left # <<>> /\ MatchSet(current_left[1]) = {1, 2}
    /\ rhs_range = <<2, 3>> /\ rhs.len >= 3
    /\ out[Len(out)] = Elem(current_left[1], <<1>>)

\* ---------------------------------------------------------------- C14
\* one advance of a per-match iterator, seen from rhs_range and the seek
RangeStep ==
    (op \in PerMatchOps
        => /\ (current_left # <<>> /\ current_left' = current_left)
                => /\ rhs_range'[2] = rhs_range[2]
                   /\ rhs_range'[1] >= rhs_range[1]
           /\ \A e \in evals' : e[3] <= e[2] /\ e[2] < e[4] /\ e[1] < lhs_iter')

\* C14: in inner_join and outer_join, while current_left holds one record,
\* rhs_range never expands from one advance to the next (hi is unchanged,
\* lo does not decrease), and every predicate evaluation of the seek is at
\* an index inside the rhs_range the seek started from.
C14_RangeNeverExpands == [][RangeStep]_vars

C14_Witness ==
    /\ op \in PerMatchOps /\ rhs.tag = "Unsorted"
    /\ current_left # <<>> /\ rhs_range[1] >= 3
    /\ \E e \in evals : e[3] >= 1 /\ e[2] > e[3]
    /\ Len(out) >= 2 /\ out[Len(out) - 1].l = current_left[1]

\* ---------------------------------------------------------------- C15
NoneYieldedLast == last = "some" /\ out[Len(out)].r = <<>>

\* C15: in outer_join, right after an (l, none) is yielded current_left is
\* empty.
C15_NoneClearsCurrentLeft ==
    (op = "outer_join" /\ NoneYieldedLast) => current_left = <<>>

\* one advance of outer_join, seen from the (l, none) elements
NoneStep ==
    (op = "outer_join"
        => /\ (last' = "some" /\ out'[Len(out')].r = <<>>)
                => /\ current_left' = <<out'[Len(out')].l>>
                   /\ pulled' >= 1
           /\ NoneYieldedLast
                => /\ current_left' # current_left
                   /\ Len(out') > Len(out) => out'[Len(out')].l # out[Len(out)].l)

\* C15 (amended): in outer_join the advance that pulls l and finds no match
\* yields (l, none) and leaves current_left = l; the next advance finds the
\* seek failing with is_first false and clears current_left without yielding
\* anything for l.
C15_NoneKeepsCurrentLeft == [][NoneStep]_vars

C15_Witness ==
    /\ op = "outer_join" /\ NoneYieldedLast /\ Len(out) >= 2
    /\ current_left = <<out[Len(out)].l>>
    /\ MatchSet(current_left[1]) = {}

\* ---------------------------------------------------------------- C16
\* the predicate restricted to LHS record i, as the table of a one-record LHS
RowOf(i) == [p \in {0} \X (0..(rhs.len - 1)) |-> predicate[<<i, p[2]>>]]

RightsOf(s) == [k \in 1..Len(s) |-> s[k].r]

\* C16: in inner_join and outer_join the RHS records yielded for LHS record i
\* are those the same operator yields for A[i] alone, whatever came before
\* it; so two records with the same matches each yield all of them.
C16_RecordsIndependent ==
    (Exhausted /\ op \in PerMatchOps)
        => \A i \in 0..(lhs_len - 1) :
              RightsOf(InnerFor(out, i))
                  = RightsOf(Collect(op, rhs, search_impl, RowOf(i), 1))

C16_Witness ==
    /\ Exhausted /\ op = "inner_join" /\ lhs_len >= 2
    /\ MatchSet(0) = {0, 1} /\ MatchSet(1) = {0, 1}
    /\ Len(out) = 4 /\ out[1].r = out[3].r /\ out[2].r = out[4].r

\* ---------------------------------------------------------------- C17
RECURSIVE Flatten(_)
Flatten(s) ==
    IF s = <<>> THEN <<>>
    ELSE [k \in 1..Len(s[1].r) |-> Elem(s[1].l, <<s[1].r[k]>>)] \o Flatten(Tail(s))

\* C17: for an Unsorted wrapper, or a Sorted one over a slice ordered as the
\* spec requires, the output of inner_join_grouped flattened to pairs is the
\* output of inner_join.
C17_FlattenedGroupedIsInner ==
    (Exhausted /\ op = "inner_join_grouped" /\ ValidWrapper)
        => Flatten(out) = OutOf("inner_join", rhs)

\* ---------------------------------------------------------------- C18
\* C18: whatever the wrapper and the order of the slice, every RHS record
\* yielded with l compares Equal to l, and the records yielded for one l are
\* at strictly increasing RHS indices.
C18_OnlyEqualYielded ==
    \A k \in 1..Len(out) :
        /\ \A x \in 1..Len(out[k].r) :
              /\ predicate[<<out[k].l, out[k].r[x]>>] = "Equal"
              /\ x < Len(out[k].r) => out[k].r[x] < out[k].r[x + 1]
        /\ (k < Len(out) /\ out[k + 1].l = out[k].l
                /\ out[k].r # <<>> /\ out[k + 1].r # <<>>)
              => out[k].r[1] < out[k + 1].r[1]

C18_Witness ==
    /\ Exhausted /\ MisOrdered /\ op \in {"inner_join", "inner_join_grouped"}
    /\ Len(out) >= 1
    /\ \E l \in 0..(lhs_len - 1) :
          /\ MatchSet(l) # {}
          /\ \A k \in 1..Len(out) : out[k].l # l

====
